---- MODULE Spec2Model ----
(***************************************************************************)
(* nextcord/errors.py: the exception taxonomy of the client library and    *)
(* the message each exception is constructed with.                         *)
(*                                                                         *)
(* Python values are tagged records (PyStr, PyInt, PyNone, PyDict,         *)
(* PyList); a str is a TLA+ string, a dict is the sequence of its          *)
(* <<key, value>> items in insertion order.  The module is ASCII, so the   *)
(* one character U+200B (zero-width space) is written "~".                 *)
(***************************************************************************)
EXTENDS Integers, Sequences, FiniteSets, TLC

VARIABLES
    call,   \* the operation that ran, with the arguments it was given
    exc,    \* the exception object that was constructed
    ret     \* the value _flatten_error_dict returned

vars == <<call, exc, ret>>

(***************************************************************************)
(* Python values                                                           *)
(***************************************************************************)
PyNone == [t |-> "None"]

PyStr(s) == [t |-> "str", s |-> s]

PyInt(n) == [t |-> "int", n |-> n]

PyDict(items) == [t |-> "dict", items |-> items]

PyList(elems) == [t |-> "list", elems |-> elems]

\* bool(v): None, 0, '', {} and [] are false
Truthy(v) ==
    CASE v.t = "None" -> FALSE
      [] v.t = "str"  -> v.s # ""
      [] v.t = "int"  -> v.n # 0
      [] v.t = "dict" -> v.items # <<>>
      [] v.t = "list" -> v.elems # <<>>

\* a or b
PyOr(a, b) == IF Truthy(a) THEN a ELSE b

\* k in d
HasKey(d, k) == \E i \in 1..Len(d.items) : d.items[i][1] = k

\* d.get(k, default)
DictGet(d, k, default) ==
    IF HasKey(d, k)
    THEN d.items[CHOOSE i \in 1..Len(d.items) : d.items[i][1] = k][2]
    ELSE default

\* dict_of keeping the first item of a key instead of the last
RECURSIVE dict_of_KeepFirst(_)
dict_of_KeepFirst(items) ==
    IF items = <<>> THEN <<>>
    ELSE LET n    == Len(items)
             init == dict_of_KeepFirst(SubSeq(items, 1, n - 1))
         IN  IF \E i \in 1..Len(init) : init[i][1] = items[n][1]
             THEN init
             ELSE Append(init, items[n])

\* dict(items): a later item of a key already seen replaces the value and
\* keeps the key's place
RECURSIVE dict_of(_)
dict_of(items) ==
    IF items = <<>> THEN <<>>
    ELSE LET n    == Len(items)
             init == dict_of(SubSeq(items, 1, n - 1))
             last == items[n]
         IN  IF \E i \in 1..Len(init) : init[i][1] = last[1]
             THEN [i \in 1..Len(init) |->
                     IF init[i][1] = last[1] THEN last ELSE init[i]]
             ELSE Append(init, last)

(***************************************************************************)
(* str methods and formatting                                              *)
(***************************************************************************)
Char(s, i) == SubSeq(s, i, i)

Digits == "0123456789"

\* str(n) of an int
RECURSIVE NatToStr(_)
NatToStr(n) ==
    IF n < 10 THEN Char(Digits, n + 1)
    ELSE NatToStr(n \div 10) \o Char(Digits, (n % 10) + 1)

IntToStr(n) == IF n < 0 THEN "-" \o NatToStr(0 - n) ELSE NatToStr(n)

\* sep.join(parts), parts a sequence of strings
RECURSIVE str_join(_, _)
str_join(sep, parts) ==
    IF parts = <<>> THEN ""
    ELSE IF Len(parts) = 1 THEN parts[1]
    ELSE parts[1] \o sep \o str_join(sep, Tail(parts))

\* s[i:].startswith(old), i counted from 1
StartsWithAt(s, i, old) ==
    /\ i + Len(old) - 1 <= Len(s)
    /\ SubSeq(s, i, i + Len(old) - 1) = old

\* sub in s
Contains(s, sub) == \E i \in 1..Len(s) : StartsWithAt(s, i, sub)

\* the place of the first occurrence of old in s at or after i, 0 if none
FindFrom(s, i, old) ==
    IF \E j \in i..Len(s) : StartsWithAt(s, j, old)
    THEN CHOOSE j \in i..Len(s) :
           /\ StartsWithAt(s, j, old)
           /\ \A h \in i..(j - 1) : ~StartsWithAt(s, h, old)
    ELSE 0

\* s.replace(old, new), old not empty: the occurrences of old, found left to
\* right and not overlapping, are each replaced
RECURSIVE replace_from(_, _, _, _)
replace_from(s, i, old, new) ==
    LET j == FindFrom(s, i, old)
    IN  IF j = 0 THEN SubSeq(s, i, Len(s))
        ELSE SubSeq(s, i, j - 1) \o new \o replace_from(s, j + Len(old), old, new)

str_replace(s, old, new) == replace_from(s, 1, old, new)

LowerCase == "abcdefghijklmnopqrstuvwxyz"

UpperCase == "ABCDEFGHIJKLMNOPQRSTUVWXYZ"

IsLower(c) == \E i \in 1..26 : Char(LowerCase, i) = c

IsUpper(c) == \E i \in 1..26 : Char(UpperCase, i) = c

IsCased(c) == IsLower(c) \/ IsUpper(c)

ToUpper(c) ==
    IF IsLower(c)
    THEN Char(UpperCase, CHOOSE i \in 1..26 : Char(LowerCase, i) = c)
    ELSE c

ToLower(c) ==
    IF IsUpper(c)
    THEN Char(LowerCase, CHOOSE i \in 1..26 : Char(UpperCase, i) = c)
    ELSE c

\* the character s.title() puts at place i: a cased character is upper-cased
\* when the character before it is not cased, lower-cased when it is
TitleChar(s, i) ==
    LET c == Char(s, i)
        previous_is_cased == i > 1 /\ IsCased(Char(s, i - 1))
    IN  IF previous_is_cased THEN ToLower(c) ELSE ToUpper(c)

\* the characters s.title() puts at places lo..hi
RECURSIVE title_range(_, _, _)
title_range(s, lo, hi) ==
    IF lo > hi THEN ""
    ELSE IF lo = hi THEN TitleChar(s, lo)
    ELSE LET mid == (lo + hi) \div 2
         IN  title_range(s, lo, mid) \o title_range(s, mid + 1, hi)

str_title(s) == title_range(s, 1, Len(s))

\* repr(s) of a str without quotes, backslashes or unprintable characters
StrRepr(s) == "'" \o s \o "'"

\* str(v) and repr(v); the two differ on a str only
RECURSIVE Repr(_), ReprItems(_), ReprElems(_)
Repr(v) ==
    CASE v.t = "None" -> "None"
      [] v.t = "str"  -> StrRepr(v.s)
      [] v.t = "int"  -> IntToStr(v.n)
      [] v.t = "dict" -> "{" \o ReprItems(v.items) \o "}"
      [] v.t = "list" -> "[" \o ReprElems(v.elems) \o "]"

ReprItems(items) ==
    IF items = <<>> THEN ""
    ELSE StrRepr(items[1][1]) \o ": " \o Repr(items[1][2])
           \o (IF Len(items) = 1 THEN "" ELSE ", " \o ReprItems(Tail(items)))

ReprElems(elems) ==
    IF elems = <<>> THEN ""
    ELSE Repr(elems[1])
           \o (IF Len(elems) = 1 THEN "" ELSE ", " \o ReprElems(Tail(elems)))

Str(v) == IF v.t = "str" THEN v.s ELSE Repr(v)

(***************************************************************************)
(* _flatten_error_dict                                                     *)
(***************************************************************************)
\* error_messages leaving out the objects that have no 'message'
RECURSIVE error_messages_SkipMissing(_)
error_messages_SkipMissing(_errors) ==
    IF _errors = <<>> THEN <<>>
    ELSE (IF HasKey(_errors[1], "message")
          THEN <<DictGet(_errors[1], "message", PyStr("")).s>> ELSE <<>>)
           \o error_messages_SkipMissing(Tail(_errors))

\* ' '.join(x.get('message', '') for x in _errors)
RECURSIVE error_messages(_)
error_messages(_errors) ==
    IF _errors = <<>> THEN <<>>
    ELSE <<DictGet(_errors[1], "message", PyStr("")).s>>
           \o error_messages(Tail(_errors))

\* flatten_loop: the items the loop appends from the i-th item of d on
RECURSIVE _flatten_error_dict(_, _), flatten_loop(_, _, _)
flatten_loop(d, key, i) ==
    IF i > Len(d.items) THEN <<>>
    ELSE LET k       == d.items[i][1]
             v       == d.items[i][2]
             new_key == IF key # "" THEN key \o "." \o k ELSE k
             added   ==
                 IF v.t = "dict"
                 THEN IF HasKey(v, "_errors")
                      THEN << <<new_key,
                                PyStr(str_join(" ",
                                    error_messages(DictGet(v, "_errors", PyNone).elems)))>> >>
                      ELSE _flatten_error_dict(v, new_key).items
                 ELSE << <<new_key, v>> >>
         IN  added \o flatten_loop(d, key, i + 1)

_flatten_error_dict(d, key) == PyDict(dict_of(flatten_loop(d, key, 1)))

(***************************************************************************)
(* The classes                                                             *)
(***************************************************************************)
Classes ==
    { "DiscordException", "ClientException", "InvalidCommandType", "NoMoreItems",
      "GatewayNotFound", "HTTPException", "Forbidden", "NotFound",
      "DiscordServerError", "InvalidData", "InvalidArgument", "LoginFailure",
      "ConnectionClosed", "PrivilegedIntentsRequired", "InteractionResponded",
      "ApplicationError", "ApplicationCheckFailure", "ApplicationCheckAnyFailure",
      "ApplicationNoPrivateMessage", "ApplicationMissingRole",
      "ApplicationMissingAnyRole", "ApplicationBotMissingRole",
      "ApplicationBotMissingAnyRole", "ApplicationMissingPermissions",
      "ApplicationBotMissingPermissions", "ApplicationPrivateMessageOnly",
      "ApplicationNotOwner", "ApplicationNSFWChannelRequired" }

\* BaseOf with ApplicationNotOwner derived from DiscordException
BaseOf_NotOwnerDetached(c) ==
    CASE c = "DiscordException" -> "Exception"
      [] c \in {"ClientException", "NoMoreItems", "GatewayNotFound",
                "HTTPException", "ApplicationError", "ApplicationNotOwner"}
           -> "DiscordException"
      [] c \in {"InvalidCommandType", "InvalidData", "InvalidArgument",
                "LoginFailure", "ConnectionClosed", "PrivilegedIntentsRequired",
                "InteractionResponded"} -> "ClientException"
      [] c \in {"Forbidden", "NotFound", "DiscordServerError"} -> "HTTPException"
      [] c = "ApplicationCheckFailure" -> "ApplicationError"
      [] OTHER -> "ApplicationCheckFailure"

\* the base named in each class statement
BaseOf(c) ==
    CASE c = "DiscordException" -> "Exception"
      [] c \in {"ClientException", "NoMoreItems", "GatewayNotFound",
                "HTTPException", "ApplicationError"} -> "DiscordException"
      [] c \in {"InvalidCommandType", "InvalidData", "InvalidArgument",
                "LoginFailure", "ConnectionClosed", "PrivilegedIntentsRequired",
                "InteractionResponded"} -> "ClientException"
      [] c \in {"Forbidden", "NotFound", "DiscordServerError"} -> "HTTPException"
      [] c = "ApplicationCheckFailure" -> "ApplicationError"
      [] c \in {"ApplicationCheckAnyFailure", "ApplicationNoPrivateMessage",
                "ApplicationMissingRole", "ApplicationMissingAnyRole",
                "ApplicationBotMissingRole", "ApplicationBotMissingAnyRole",
                "ApplicationMissingPermissions", "ApplicationBotMissingPermissions",
                "ApplicationPrivateMessageOnly", "ApplicationNotOwner",
                "ApplicationNSFWChannelRequired"} -> "ApplicationCheckFailure"

\* issubclass(c, b)
RECURSIVE IsSubclass(_, _)
IsSubclass(c, b) ==
    \/ c = b
    \/ c \in Classes /\ IsSubclass(BaseOf(c), b)

\* the classes whose body defines __init__
DefinesInit ==
    { "GatewayNotFound", "HTTPException", "ConnectionClosed",
      "PrivilegedIntentsRequired", "InteractionResponded", "ApplicationError",
      "ApplicationCheckAnyFailure", "ApplicationNoPrivateMessage",
      "ApplicationMissingRole", "ApplicationMissingAnyRole",
      "ApplicationBotMissingRole", "ApplicationBotMissingAnyRole",
      "ApplicationMissingPermissions", "ApplicationBotMissingPermissions",
      "ApplicationPrivateMessageOnly", "ApplicationNSFWChannelRequired" }

\* the class whose __init__ runs when c is constructed: the first class of
\* c's chain of bases that defines one
RECURSIVE InitOwner(_)
InitOwner(c) ==
    IF c \notin Classes THEN "Exception"
    ELSE IF c \in DefinesInit THEN c
    ELSE InitOwner(BaseOf(c))

(***************************************************************************)
(* The constructors.  An exception object is a record of its class, its    *)
(* args (what Exception.__init__ was given) and its attributes.            *)
(***************************************************************************)
\* Exception.__init__(*args)
Exception_init(cls, args) == [cls |-> cls, args |-> args]

\* str(e) of an exception: '' without args, str(args[0]) with one, the repr
\* of the tuple with more
ExcStr(e) ==
    IF Len(e.args) = 0 THEN ""
    ELSE IF Len(e.args) = 1 THEN Str(e.args[1])
    ELSE "(" \o ReprElems(e.args) \o ")"

\* GatewayNotFound.__init__
GatewayNotFound_init(cls) ==
    LET message == "The gateway to connect to discord was not found."
    IN  Exception_init(cls, <<PyStr(message)>>)

\* HelpfulLines with the format '%s: %s'
HelpfulLines_NoIn(errors) ==
    [i \in 1..Len(errors.items) |->
        Str(PyStr(errors.items[i][1])) \o ": " \o Str(errors.items[i][2])]

\* 'In %s: %s' % t for t in errors.items()
HelpfulLines(errors) ==
    [i \in 1..Len(errors.items) |->
        "In " \o Str(PyStr(errors.items[i][1])) \o ": " \o Str(errors.items[i][2])]

\* HTTPFormat with the test on len(self.text) lost: ': {2}' always appended
HTTPFormat_AlwaysText(response, code, text) ==
    IntToStr(response.status) \o " " \o response.reason
      \o " (error code: " \o Str(code) \o ")" \o ": " \o text

\* fmt.format(self.response, self.code, self.text)
HTTPFormat(response, code, text) ==
    LET fmt0 == IntToStr(response.status) \o " " \o response.reason
                   \o " (error code: " \o Str(code) \o ")"
    IN  IF Len(text) # 0 THEN fmt0 \o ": " \o text ELSE fmt0

\* HTTPException.__init__
HTTPException_init(cls, response, message) ==
    LET isdict  == message.t = "dict"
        base    == DictGet(message, "message", PyStr(""))
        errors  == DictGet(message, "errors", PyNone)
        code    == IF isdict THEN DictGet(message, "code", PyInt(0)) ELSE PyInt(0)
        text    ==
            IF isdict
            THEN IF Truthy(errors)
                 THEN LET flat    == _flatten_error_dict(errors, "")
                          helpful == str_join("\n", HelpfulLines(flat))
                      IN  base.s \o "\n" \o helpful
                 ELSE base.s
            ELSE PyOr(message, PyStr("")).s
    IN  [response |-> response, status |-> response.status, code |-> code,
         text |-> text]
          @@ Exception_init(cls, <<PyStr(HTTPFormat(response, code, text))>>)

\* ConnectionClosed.__init__
ConnectionClosed_init(cls, socket, shard_id, code) ==
    LET resolved == PyOr(PyOr(code, socket.close_code), PyInt(-1))
    IN  [code |-> resolved, reason |-> "", shard_id |-> shard_id]
          @@ Exception_init(cls,
                <<PyStr("Shard ID " \o Str(shard_id) \o " WebSocket closed with "
                          \o Str(resolved))>>)

\* PrivilegedIntentsRequired.__init__
PrivilegedIntentsRequired_init(cls, shard_id) ==
    LET msg1 == "Shard ID "
        msg2 == " is requesting privileged intents that have not been explicitly enabled in the "
                  \o "developer portal. It is recommended to go to https://discord.com/developers/applications/ "
                  \o "and explicitly enable the privileged intents within your application's page. If this is not "
                  \o "possible, then consider disabling the privileged intents instead."
    IN  [shard_id |-> shard_id]
          @@ Exception_init(cls, <<PyStr(msg1 \o Str(shard_id) \o msg2)>>)

\* InteractionResponded.__init__
InteractionResponded_init(cls, interaction) ==
    [interaction |-> interaction]
      @@ Exception_init(cls,
            <<PyStr("This interaction has already been responded to before")>>)

\* the zero-width space U+200B
ZWSP == "~"

\* CleanMentions without the second replace
CleanMentions_EveryoneOnly(message) ==
    str_replace(message, "@everyone", "@" \o ZWSP \o "everyone")

\* message.replace('@everyone', '@\u200beveryone').replace('@here', '@\u200bhere')
CleanMentions(message) ==
    str_replace(str_replace(message, "@everyone", "@" \o ZWSP \o "everyone"),
                "@here", "@" \o ZWSP \o "here")

\* ApplicationError.__init__(message, *args)
ApplicationError_init(cls, message, args) ==
    IF message.t # "None"
    THEN Exception_init(cls, <<PyStr(CleanMentions(message.s))>> \o args)
    ELSE Exception_init(cls, args)

\* super().__init__(message, *args) in the body of class `defining`
super_init(defining, cls, message, args) ==
    IF InitOwner(BaseOf(defining)) = "ApplicationError"
    THEN ApplicationError_init(cls, message, args)
    ELSE Exception_init(cls, <<message>> \o args)

\* ApplicationCheckAnyFailure.__init__
ApplicationCheckAnyFailure_init(cls, checks, errors) ==
    [checks |-> checks, errors |-> errors]
      @@ super_init("ApplicationCheckAnyFailure", cls,
                    PyStr("You do not have permission to run this command."), <<>>)

\* ApplicationNoPrivateMessage.__init__
ApplicationNoPrivateMessage_init(cls, message) ==
    super_init("ApplicationNoPrivateMessage", cls,
               PyOr(message, PyStr("This command cannot be used in private messages.")),
               <<>>)

\* ApplicationMissingRole.__init__
ApplicationMissingRole_init(cls, missing_role) ==
    LET message == "Role " \o Repr(missing_role) \o " is required to run this command."
    IN  [missing_role |-> missing_role]
          @@ super_init("ApplicationMissingRole", cls, PyStr(message), <<>>)

\* [f"'{role}'" for role in missing_roles]
QuotedRoles(missing_roles) ==
    [i \in 1..Len(missing_roles) |-> "'" \o Str(missing_roles[i]) \o "'"]

\* JoinMissing with the test len(missing) > 1
JoinMissing_FromTwo(missing, conj) ==
    IF Len(missing) > 1
    THEN str_join(", ", SubSeq(missing, 1, Len(missing) - 1))
           \o ", " \o conj \o " " \o missing[Len(missing)]
    ELSE str_join(" " \o conj \o " ", missing)

\* the if/else that joins the list `missing` with the word `conj`
JoinMissing(missing, conj) ==
    IF Len(missing) > 2
    THEN str_join(", ", SubSeq(missing, 1, Len(missing) - 1))
           \o ", " \o conj \o " " \o missing[Len(missing)]
    ELSE str_join(" " \o conj \o " ", missing)

\* ApplicationMissingAnyRole.__init__
ApplicationMissingAnyRole_init(cls, missing_roles) ==
    LET missing == QuotedRoles(missing_roles)
        fmt     == JoinMissing(missing, "or")
        message == "You are missing at least one of the required roles: " \o fmt
    IN  [missing_roles |-> missing_roles]
          @@ super_init("ApplicationMissingAnyRole", cls, PyStr(message), <<>>)

\* ApplicationBotMissingRole.__init__
ApplicationBotMissingRole_init(cls, missing_role) ==
    LET message == "Bot requires the role " \o Repr(missing_role)
                     \o " to run this command"
    IN  [missing_role |-> missing_role]
          @@ super_init("ApplicationBotMissingRole", cls, PyStr(message), <<>>)

\* ApplicationBotMissingAnyRole.__init__
ApplicationBotMissingAnyRole_init(cls, missing_roles) ==
    LET missing == QuotedRoles(missing_roles)
        fmt     == JoinMissing(missing, "or")
        message == "Bot is missing at least one of the required roles: " \o fmt
    IN  [missing_roles |-> missing_roles]
          @@ super_init("ApplicationBotMissingAnyRole", cls, PyStr(message), <<>>)

\* PermissionName title-casing before 'guild' is replaced
PermissionName_TitleFirst(perm) ==
    str_replace(str_title(str_replace(perm, "_", " ")), "guild", "server")

\* perm.replace('_', ' ').replace('guild', 'server').title()
PermissionName(perm) ==
    str_title(str_replace(str_replace(perm, "_", " "), "guild", "server"))

\* [... for perm in missing_permissions]
PermissionNames(missing_permissions) ==
    [i \in 1..Len(missing_permissions) |-> PermissionName(missing_permissions[i])]

\* ApplicationMissingPermissions.__init__
ApplicationMissingPermissions_init(cls, missing_permissions, args) ==
    LET missing == PermissionNames(missing_permissions)
        fmt     == JoinMissing(missing, "and")
        message == "You are missing " \o fmt \o " permission(s) to run this command."
    IN  [missing_permissions |-> missing_permissions]
          @@ super_init("ApplicationMissingPermissions", cls, PyStr(message), args)

\* ApplicationBotMissingPermissions.__init__
ApplicationBotMissingPermissions_init(cls, missing_permissions, args) ==
    LET missing == PermissionNames(missing_permissions)
        fmt     == JoinMissing(missing, "and")
        message == "Bot requires " \o fmt \o " permission(s) to run this command."
    IN  [missing_permissions |-> missing_permissions]
          @@ super_init("ApplicationBotMissingPermissions", cls, PyStr(message), args)

\* ApplicationPrivateMessageOnly.__init__
ApplicationPrivateMessageOnly_init(cls, message) ==
    super_init("ApplicationPrivateMessageOnly", cls,
               PyOr(message, PyStr("This command can only be used in private messages.")),
               <<>>)

\* ApplicationNSFWChannelRequired.__init__; str(channel) is the channel's name
ApplicationNSFWChannelRequired_init(cls, channel) ==
    [channel |-> channel]
      @@ super_init("ApplicationNSFWChannelRequired", cls,
                    PyStr("Channel '" \o channel.name
                            \o "' needs to be NSFW for this command to work."),
                    <<>>)

(***************************************************************************)
(* Arguments the operations are called with                                *)
(***************************************************************************)
MaxErrs == 2

MaxWidth == 2

SeqsUpTo(S, n) == UNION {[1..m -> S] : m \in 0..n}

\* the objects of an _errors list; 'message' may be missing
ErrorObjects ==
    { PyDict(<<>>),
      PyDict(<< <<"message", PyStr("too long")>> >>),
      PyDict(<< <<"message", PyStr("bad word")>> >>) }

ErrorLists == {PyList(e) : e \in SeqsUpTo(ErrorObjects, MaxErrs)}

TooLongBadWord == PyList(<<PyDict(<< <<"message", PyStr("too long")>> >>),
                           PyDict(<< <<"message", PyStr("bad word")>> >>)>>)

FixedErrorLists ==
    { PyList(<<>>), TooLongBadWord,
      PyList(<<PyDict(<<>>), PyDict(<< <<"message", PyStr("too long")>> >>)>>) }

\* the values of the top-level keys: scalars, nested mappings, and mappings
\* holding _errors (alone, beside other keys, one level further down)
NestedValues ==
    { PyStr("x"), PyStr("y"),
      PyDict(<<>>),
      PyDict(<< <<"b", PyStr("x")>> >>),
      PyDict(<< <<"b", PyStr("x")>>, <<"c", PyStr("y")>> >>),
      PyDict(<< <<"b", PyDict(<< <<"c", PyStr("y")>> >>)>> >>),
      PyDict(<< <<"b.c", PyStr("x")>>, <<"b", PyDict(<< <<"c", PyStr("y")>> >>)>> >>),
      PyDict(<< <<"", PyStr("y")>> >>),
      PyDict(<< <<"_errors", TooLongBadWord>>, <<"b", PyStr("x")>> >>),
      PyDict(<< <<"b", PyDict(<< <<"c", PyStr("x")>> >>)>>, <<"_errors", TooLongBadWord>> >>),
      PyDict(<< <<"b", PyDict(<< <<"_errors", TooLongBadWord>> >>)>> >>) }
    \cup {PyDict(<< <<"_errors", l>> >>) : l \in FixedErrorLists}

TopKeys == {"", "content", "content.b"}

TopItems ==
    (TopKeys \X NestedValues) \cup {<<"_errors", TooLongBadWord>>}

DistinctKeys(items) ==
    \A i, j \in 1..Len(items) : items[i][1] = items[j][1] => i = j

\* the mappings _flatten_error_dict is applied to
ErrorDicts ==
    {PyDict(items) : items \in {s \in SeqsUpTo(TopItems, MaxWidth) : DistinctKeys(s)}}
    \cup {PyDict(<< <<"content", PyDict(<< <<"_errors", l>> >>)>> >>) : l \in ErrorLists}

\* the errors payloads HTTPException is given: those of at most one top-level key
HTTPErrors == {d \in ErrorDicts : Len(d.items) <= 1}

\* response objects: status and reason
Responses ==
    { [status |-> 403, reason |-> "Forbidden"],
      [status |-> 404, reason |-> "Not Found"],
      [status |-> 500, reason |-> "Internal Server Error"] }

\* decoded bodies: None, a str, or a dict with optional code, message, errors
Payloads ==
    { PyDict(c \o m \o e) :
        c \in {<<>>, << <<"code", PyInt(50001)>> >>, << <<"code", PyInt(50035)>> >>},
        m \in {<<>>, << <<"message", PyStr("")>> >>,
               << <<"message", PyStr("Missing Access")>> >>},
        e \in {<<>>} \cup {<< <<"errors", d>> >> : d \in HTTPErrors} }

HTTPMessages == {PyNone, PyStr(""), PyStr("Missing Access")} \cup Payloads

\* close codes, explicit or reported by the socket; None when there is none
CloseCodes == {PyNone, PyInt(0), PyInt(1000), PyInt(4014)}

Sockets == {[close_code |-> c] : c \in CloseCodes}

ShardIds == {PyNone, PyInt(0), PyInt(3)}

MaxFrags == 2

Fragments == {"@everyone", "@here", "@", "every", "one", "here", ZWSP, "Hey ", " and "}

RECURSIVE Concat(_)
Concat(parts) == IF parts = <<>> THEN "" ELSE parts[1] \o Concat(Tail(parts))

\* message texts, with and without the mention tokens
Texts ==
    {Concat(f) : f \in SeqsUpTo(Fragments, MaxFrags)}
    \cup {"Hey @everyone and @here"}

OptionalTexts == {PyNone} \cup {PyStr(m) : m \in Texts}

\* further positional arguments (*args)
ExtraArgs == {<<>>, <<PyStr("@here")>>}

MaxList == 3

\* role identifiers: names or ids
Snowflakes == {PyStr("a"), PyStr("b"), PyStr("c"), PyStr("@everyone"), PyInt(42)}

RoleLists == SeqsUpTo(Snowflakes, MaxList)

Permissions == {"manage_guild", "kick_members", "view_guild_insights", "Manage_guilds"}

PermissionLists == SeqsUpTo(Permissions, MaxList)

Channels == {[name |-> "general"], [name |-> "@everyone"], [name |-> "nsfw@here"]}

Interactions == {[id |-> 1], [id |-> 2]}

\* the classes constructed by the __init__ of class `owner`
ConstructedBy(owner) == {c \in Classes : InitOwner(c) = owner}

(***************************************************************************)
(* The operations                                                          *)
(***************************************************************************)
Idle == [op |-> "idle"]

Init ==
    /\ call = Idle
    /\ exc = PyNone
    /\ ret = PyNone

\* _flatten_error_dict(d)
Flatten ==
    /\ call = Idle
    /\ \E d \in ErrorDicts :
         /\ call' = [op |-> "_flatten_error_dict", d |-> d]
         /\ ret' = _flatten_error_dict(d, "")
    /\ UNCHANGED exc

\* cls(*args) of a class that inherits Exception.__init__
RaisePlain ==
    /\ call = Idle
    /\ \E cls \in ConstructedBy("Exception"),
          args \in {<<>>, <<PyStr("Improper token has been passed.")>>} :
         /\ call' = [op |-> "Exception", cls |-> cls, args |-> args]
         /\ exc' = Exception_init(cls, args)
    /\ UNCHANGED ret

\* GatewayNotFound()
RaiseGatewayNotFound ==
    /\ call = Idle
    /\ \E cls \in ConstructedBy("GatewayNotFound") :
         /\ call' = [op |-> "GatewayNotFound", cls |-> cls]
         /\ exc' = GatewayNotFound_init(cls)
    /\ UNCHANGED ret

\* HTTPException(response, message) and its subclasses
RaiseHTTPException ==
    /\ call = Idle
    /\ \E cls \in ConstructedBy("HTTPException"), response \in Responses,
          message \in HTTPMessages :
         /\ call' = [op |-> "HTTPException", cls |-> cls, response |-> response,
                     message |-> message]
         /\ exc' = HTTPException_init(cls, response, message)
    /\ UNCHANGED ret

\* ConnectionClosed(socket, shard_id=..., code=...)
RaiseConnectionClosed ==
    /\ call = Idle
    /\ \E cls \in ConstructedBy("ConnectionClosed"), socket \in Sockets,
          shard_id \in ShardIds, code \in CloseCodes :
         /\ call' = [op |-> "ConnectionClosed", cls |-> cls, socket |-> socket,
                     shard_id |-> shard_id, code |-> code]
         /\ exc' = ConnectionClosed_init(cls, socket, shard_id, code)
    /\ UNCHANGED ret

\* PrivilegedIntentsRequired(shard_id)
RaisePrivilegedIntentsRequired ==
    /\ call = Idle
    /\ \E cls \in ConstructedBy("PrivilegedIntentsRequired"), shard_id \in ShardIds :
         /\ call' = [op |-> "PrivilegedIntentsRequired", cls |-> cls,
                     shard_id |-> shard_id]
         /\ exc' = PrivilegedIntentsRequired_init(cls, shard_id)
    /\ UNCHANGED ret

\* InteractionResponded(interaction)
RaiseInteractionResponded ==
    /\ call = Idle
    /\ \E cls \in ConstructedBy("InteractionResponded"), interaction \in Interactions :
         /\ call' = [op |-> "InteractionResponded", cls |-> cls,
                     interaction |-> interaction]
         /\ exc' = InteractionResponded_init(cls, interaction)
    /\ UNCHANGED ret

\* ApplicationError(message, *args), and the subclasses that inherit its __init__
RaiseApplicationError ==
    /\ call = Idle
    /\ \E cls \in ConstructedBy("ApplicationError"), message \in OptionalTexts,
          args \in ExtraArgs :
         /\ call' = [op |-> "ApplicationError", cls |-> cls, message |-> message,
                     args |-> args]
         /\ exc' = ApplicationError_init(cls, message, args)
    /\ UNCHANGED ret

\* ApplicationCheckAnyFailure(checks, errors)
RaiseApplicationCheckAnyFailure ==
    /\ call = Idle
    /\ \E cls \in ConstructedBy("ApplicationCheckAnyFailure"),
          checks \in {<<>>, <<"is_owner">>, <<"is_owner", "has_role">>},
          errors \in {<<>>, <<"ApplicationNotOwner">>} :
         /\ call' = [op |-> "ApplicationCheckAnyFailure", cls |-> cls,
                     checks |-> checks, errors |-> errors]
         /\ exc' = ApplicationCheckAnyFailure_init(cls, checks, errors)
    /\ UNCHANGED ret

\* ApplicationNoPrivateMessage(message)
RaiseApplicationNoPrivateMessage ==
    /\ call = Idle
    /\ \E cls \in ConstructedBy("ApplicationNoPrivateMessage"),
          message \in OptionalTexts :
         /\ call' = [op |-> "ApplicationNoPrivateMessage", cls |-> cls,
                     message |-> message]
         /\ exc' = ApplicationNoPrivateMessage_init(cls, message)
    /\ UNCHANGED ret

\* ApplicationMissingRole(missing_role)
RaiseApplicationMissingRole ==
    /\ call = Idle
    /\ \E cls \in ConstructedBy("ApplicationMissingRole"), missing_role \in Snowflakes :
         /\ call' = [op |-> "ApplicationMissingRole", cls |-> cls,
                     missing_role |-> missing_role]
         /\ exc' = ApplicationMissingRole_init(cls, missing_role)
    /\ UNCHANGED ret

\* ApplicationMissingAnyRole(missing_roles)
RaiseApplicationMissingAnyRole ==
    /\ call = Idle
    /\ \E cls \in ConstructedBy("ApplicationMissingAnyRole"),
          missing_roles \in RoleLists :
         /\ call' = [op |-> "ApplicationMissingAnyRole", cls |-> cls,
                     missing_roles |-> missing_roles]
         /\ exc' = ApplicationMissingAnyRole_init(cls, missing_roles)
    /\ UNCHANGED ret

\* ApplicationBotMissingRole(missing_role)
RaiseApplicationBotMissingRole ==
    /\ call = Idle
    /\ \E cls \in ConstructedBy("ApplicationBotMissingRole"),
          missing_role \in Snowflakes :
         /\ call' = [op |-> "ApplicationBotMissingRole", cls |-> cls,
                     missing_role |-> missing_role]
         /\ exc' = ApplicationBotMissingRole_init(cls, missing_role)
    /\ UNCHANGED ret

\* ApplicationBotMissingAnyRole(missing_roles)
RaiseApplicationBotMissingAnyRole ==
    /\ call = Idle
    /\ \E cls \in ConstructedBy("ApplicationBotMissingAnyRole"),
          missing_roles \in RoleLists :
         /\ call' = [op |-> "ApplicationBotMissingAnyRole", cls |-> cls,
                     missing_roles |-> missing_roles]
         /\ exc' = ApplicationBotMissingAnyRole_init(cls, missing_roles)
    /\ UNCHANGED ret

\* ApplicationMissingPermissions(missing_permissions, *args)
RaiseApplicationMissingPermissions ==
    /\ call = Idle
    /\ \E cls \in ConstructedBy("ApplicationMissingPermissions"),
          missing_permissions \in PermissionLists, args \in ExtraArgs :
         /\ call' = [op |-> "ApplicationMissingPermissions", cls |-> cls,
                     missing_permissions |-> missing_permissions, args |-> args]
         /\ exc' = ApplicationMissingPermissions_init(cls, missing_permissions, args)
    /\ UNCHANGED ret

\* ApplicationBotMissingPermissions(missing_permissions, *args)
RaiseApplicationBotMissingPermissions ==
    /\ call = Idle
    /\ \E cls \in ConstructedBy("ApplicationBotMissingPermissions"),
          missing_permissions \in PermissionLists, args \in ExtraArgs :
         /\ call' = [op |-> "ApplicationBotMissingPermissions", cls |-> cls,
                     missing_permissions |-> missing_permissions, args |-> args]
         /\ exc' = ApplicationBotMissingPermissions_init(cls, missing_permissions, args)
    /\ UNCHANGED ret

\* ApplicationPrivateMessageOnly(message)
RaiseApplicationPrivateMessageOnly ==
    /\ call = Idle
    /\ \E cls \in ConstructedBy("ApplicationPrivateMessageOnly"),
          message \in OptionalTexts :
         /\ call' = [op |-> "ApplicationPrivateMessageOnly", cls |-> cls,
                     message |-> message]
         /\ exc' = ApplicationPrivateMessageOnly_init(cls, message)
    /\ UNCHANGED ret

\* ApplicationNSFWChannelRequired(channel)
RaiseApplicationNSFWChannelRequired ==
    /\ call = Idle
    /\ \E cls \in ConstructedBy("ApplicationNSFWChannelRequired"),
          channel \in Channels :
         /\ call' = [op |-> "ApplicationNSFWChannelRequired", cls |-> cls,
                     channel |-> channel]
         /\ exc' = ApplicationNSFWChannelRequired_init(cls, channel)
    /\ UNCHANGED ret

Next ==
    \/ Flatten
    \/ RaisePlain
    \/ RaiseGatewayNotFound
    \/ RaiseHTTPException
    \/ RaiseConnectionClosed
    \/ RaisePrivilegedIntentsRequired
    \/ RaiseInteractionResponded
    \/ RaiseApplicationError
    \/ RaiseApplicationCheckAnyFailure
    \/ RaiseApplicationNoPrivateMessage
    \/ RaiseApplicationMissingRole
    \/ RaiseApplicationMissingAnyRole
    \/ RaiseApplicationBotMissingRole
    \/ RaiseApplicationBotMissingAnyRole
    \/ RaiseApplicationMissingPermissions
    \/ RaiseApplicationBotMissingPermissions
    \/ RaiseApplicationPrivateMessageOnly
    \/ RaiseApplicationNSFWChannelRequired

Spec == Init /\ [][Next]_vars

(***************************************************************************)
(* HTTPException: the display message, the code and the text               *)
(***************************************************************************)
HTTPRan == call.op = "HTTPException"

\* "{status} {reason} (error code: {code})" of the call's response and the
\* code the exception holds
HTTPHead ==
    IntToStr(call.response.status) \o " " \o call.response.reason
      \o " (error code: " \o IntToStr(exc.code.n) \o ")"

MissingAccessPayload ==
    PyDict(<< <<"code", PyInt(50001)>>, <<"message", PyStr("Missing Access")>> >>)

\* C1: every HTTPException, Forbidden, NotFound and DiscordServerError has the
\* display message "{status} {reason} (error code: {code})" when its text is
\* empty and that string followed by ": {text}" when it is not; a str or
\* absent message gives code 0 and the str (or '') as text.  403 Forbidden
\* with code 50001 and message "Missing Access" gives
\* "403 Forbidden (error code: 50001): Missing Access"; 404 with message ''
\* gives "404 Not Found (error code: 0)".
C1_HTTPDisplayMessage ==
    HTTPRan =>
        /\ exc.cls = call.cls
        /\ exc.cls \in {"HTTPException", "Forbidden", "NotFound", "DiscordServerError"}
        /\ exc.status = call.response.status
        /\ Len(exc.args) = 1
        /\ exc.text = "" => ExcStr(exc) = HTTPHead
        /\ exc.text # "" => ExcStr(exc) = HTTPHead \o ": " \o exc.text
        /\ call.message.t = "None" => exc.code = PyInt(0) /\ exc.text = ""
        /\ call.message.t = "str" => exc.code = PyInt(0) /\ exc.text = call.message.s
        /\ (call.response.status = 403 /\ call.message = MissingAccessPayload)
              => ExcStr(exc) = "403 Forbidden (error code: 50001): Missing Access"
        /\ (call.response.status = 404 /\ call.message = PyStr(""))
              => ExcStr(exc) = "404 Not Found (error code: 0)"

\* a NotFound built from the str '' has no text segment
C1_Witness ==
    /\ HTTPRan
    /\ call.cls = "NotFound"
    /\ call.response.status = 404
    /\ call.message = PyStr("")
    /\ ExcStr(exc) = "404 Not Found (error code: 0)"

PayloadRan == HTTPRan /\ call.message.t = "dict"

PayloadCode == DictGet(call.message, "code", PyInt(0))

PayloadBase == DictGet(call.message, "message", PyStr("")).s

PayloadHasErrors == HasKey(call.message, "errors")

\* the flattened errors field of the call's payload
PayloadFlat == _flatten_error_dict(DictGet(call.message, "errors", PyDict(<<>>)), "").items

\* the flattened entries, each on a line of its own after a line break, every
\* line starting with `lead`
RECURSIVE EntryLines(_, _)
EntryLines(items, lead) ==
    IF items = <<>> THEN ""
    ELSE "\n" \o lead \o items[1][1] \o ": " \o Str(items[1][2])
           \o EntryLines(Tail(items), lead)

\* C2 as stated: with a structured payload the code is the payload's code (0
\* if absent), the text is the payload's message (empty if absent) and, when
\* an errors field is present, each flattened entry follows the base text as
\* a "path: joined-message" pair on a line of its own.
C2_PathMessagePairs ==
    PayloadRan =>
        /\ exc.code = PayloadCode
        /\ ~PayloadHasErrors => exc.text = PayloadBase
        /\ (PayloadHasErrors /\ PayloadFlat # <<>>)
              => exc.text = PayloadBase \o EntryLines(PayloadFlat, "")

\* C2 amended: the code is the payload's code (0 if absent); when the errors
\* field is absent or an empty mapping the text is exactly the payload's
\* message (empty if absent); otherwise the text is the message, a line
\* break, and the flattened entries joined by line breaks, each written
\* "In {path}: {value}" (so an errors field that flattens to nothing leaves
\* the message followed by a bare line break).
C2_InPathMessageLines ==
    PayloadRan =>
        /\ exc.code = PayloadCode
        /\ (~PayloadHasErrors \/ DictGet(call.message, "errors", PyNone).items = <<>>)
              => exc.text = PayloadBase
        /\ (PayloadHasErrors /\ DictGet(call.message, "errors", PyNone).items # <<>>)
              => exc.text =
                   IF PayloadFlat = <<>> THEN PayloadBase \o "\n"
                   ELSE PayloadBase \o EntryLines(PayloadFlat, "In ")

\* a payload whose errors field flattens to two entries
C2_Witness ==
    /\ PayloadRan
    /\ call.message =
          PyDict(<< <<"code", PyInt(50035)>>,
                    <<"errors", PyDict(<< <<"content",
                        PyDict(<< <<"b", PyStr("x")>>, <<"c", PyStr("y")>> >>)>> >>)>> >>)
    /\ exc.code = PyInt(50035)
    /\ exc.text = "\nIn content.b: x\nIn content.c: y"

(***************************************************************************)
(* _flatten_error_dict: what the walk meets, stated on paths of keys       *)
(***************************************************************************)
FlattenRan == call.op = "_flatten_error_dict"

\* no key _errors at any level of d
RECURSIVE NoErrorsKey(_)
NoErrorsKey(d) ==
    \A i \in 1..Len(d.items) :
        /\ d.items[i][1] # "_errors"
        /\ d.items[i][2].t = "dict" => NoErrorsKey(d.items[i][2])

\* the message fields of an _errors list joined by single spaces, a missing
\* field counting as ''
JoinedMessages(v) ==
    LET l == DictGet(v, "_errors", PyList(<<>>)).elems
    IN  str_join(" ", [i \in 1..Len(l) |->
                          IF HasKey(l[i], "message")
                          THEN DictGet(l[i], "message", PyNone).s ELSE ""])

\* the values the walk meets in encounter order, each with its path of keys:
\* a scalar, or a mapping that holds _errors (what lies inside it is not met)
RECURSIVE Met(_, _, _)
Met(d, path, i) ==
    IF i > Len(d.items) THEN <<>>
    ELSE LET p == Append(path, d.items[i][1])
             v == d.items[i][2]
         IN  (IF v.t # "dict" THEN <<[path |-> p, errors |-> FALSE, value |-> v]>>
              ELSE IF HasKey(v, "_errors")
                   THEN <<[path |-> p, errors |-> TRUE,
                           value |-> PyStr(JoinedMessages(v))]>>
                   ELSE Met(v, p, 1))
                \o Met(d, path, i + 1)

MetByCall == Met(call.d, <<>>, 1)

\* the keys of a path joined by '.'
JoinPath(p) == str_join(".", p)

\* the key the walk builds for a path: no '.' is put after an empty prefix,
\* so the empty keys a path starts with leave no trace
RECURSIVE DottedKey(_)
DottedKey(p) ==
    IF p = <<>> THEN ""
    ELSE IF p[1] = "" THEN DottedKey(Tail(p))
    ELSE JoinPath(p)

\* the paths of keys that lie inside the mapping v, at any depth
RECURSIVE PathsInside(_)
PathsInside(v) ==
    UNION { {<<v.items[i][1]>>} \cup
            (IF v.items[i][2].t = "dict"
             THEN {<<v.items[i][1]>> \o q : q \in PathsInside(v.items[i][2])}
             ELSE {}) : i \in 1..Len(v.items) }

\* the value at path p of d
RECURSIVE ValueAt(_, _)
ValueAt(d, p) ==
    LET v == DictGet(d, p[1], PyNone)
    IN  IF Len(p) = 1 THEN v ELSE ValueAt(v, Tail(p))

RetKeys == {ret.items[j][1] : j \in 1..Len(ret.items)}

RetValue(k) == DictGet(ret, k, PyNone)

\* the last value met whose path gives the dotted key k
LastMet(k) ==
    LET w == MetByCall
        i == CHOOSE i \in 1..Len(w) :
               /\ DottedKey(w[i].path) = k
               /\ \A h \in (i + 1)..Len(w) : DottedKey(w[h].path) # k
    IN  w[i].value

\* C3 as stated: for an input with no _errors key at any level the output has
\* exactly one entry per leaf scalar, under the leaf's path of keys joined by
\* '.', holding the leaf; the number of entries is the number of leaves, also
\* when keys contain '.' or two paths join to the same string.  (The dotted
\* key is taken as the walk builds it, so empty keys are not what fails.)
C3_OneEntryPerLeaf ==
    (FlattenRan /\ NoErrorsKey(call.d)) =>
        LET w == MetByCall
        IN  /\ Len(ret.items) = Len(w)
            /\ \A i \in 1..Len(w) :
                 \E j \in 1..Len(ret.items) :
                    ret.items[j] = <<DottedKey(w[i].path), w[i].value>>

\* C3 amended: for an input with no _errors key at any level the output has
\* one entry per distinct dotted key of the leaves, a leaf's dotted key being
\* its path of keys joined by '.' without the empty keys the path starts
\* with; the entry holds the leaf, the last one in encounter order when
\* several leaves have the same dotted key; the number of entries is the
\* number of leaves exactly when no two leaves have the same dotted key.
C3_OneEntryPerDottedKey ==
    (FlattenRan /\ NoErrorsKey(call.d)) =>
        LET w == MetByCall
        IN  /\ DistinctKeys(ret.items)
            /\ RetKeys = {DottedKey(w[i].path) : i \in 1..Len(w)}
            /\ \A k \in RetKeys : RetValue(k) = LastMet(k)
            /\ (Len(ret.items) = Len(w))
                 <=> (\A i, h \in 1..Len(w) :
                        DottedKey(w[i].path) = DottedKey(w[h].path) => i = h)

\* two leaves with the dotted key content.b: the later one is kept
C3_Witness ==
    /\ FlattenRan
    /\ call.d = PyDict(<< <<"content", PyDict(<< <<"b", PyStr("x")>> >>)>>,
                          <<"content.b", PyStr("y")>> >>)
    /\ ret = PyDict(<< <<"content.b", PyStr("y")>> >>)

ContentErrors ==
    PyDict(<< <<"content", PyDict(<< <<"_errors", TooLongBadWord>> >>)>> >>)

\* C4 as stated: a value that is a mapping holding _errors gives exactly one
\* output entry, under its dotted path, equal to the message fields joined by
\* single spaces (a missing field counting as ''), and no output entry for a
\* key nested inside it; {"content": {"_errors": [too long, bad word]}}
\* flattens to {"content": "too long bad word"}.  (The dotted path is taken as
\* the walk builds it, so empty keys are not what fails.)
C4_ErrorsEntry ==
    FlattenRan =>
        LET w == MetByCall
        IN  /\ \A i \in 1..Len(w) :
                 w[i].errors =>
                    /\ DottedKey(w[i].path) \in RetKeys
                    /\ RetValue(DottedKey(w[i].path)) = w[i].value
                    /\ \A q \in PathsInside(ValueAt(call.d, w[i].path)) :
                         q # <<"_errors">> => DottedKey(w[i].path \o q) \notin RetKeys
            /\ call.d = ContentErrors
                 => ret = PyDict(<< <<"content", PyStr("too long bad word")>> >>)

\* C4 amended: a value that is a mapping holding _errors is met by the walk
\* as one item, its dotted key (the path joined by '.' without the empty keys
\* it starts with) with the message fields joined by single spaces (a missing
\* field counting as ''), and nothing inside it is met; the output has an
\* entry under that dotted key, holding the joined messages unless an item
\* met later has the same dotted key, whose value it then holds; every output
\* entry is the dotted key and value of an item met.
C4_ErrorsEntryUnlessReplaced ==
    FlattenRan =>
        LET w == MetByCall
        IN  /\ \A i \in 1..Len(w) :
                 w[i].errors =>
                    /\ w[i].value = PyStr(JoinedMessages(ValueAt(call.d, w[i].path)))
                    /\ DottedKey(w[i].path) \in RetKeys
                    /\ (\A h \in (i + 1)..Len(w) :
                           DottedKey(w[h].path) # DottedKey(w[i].path))
                         => RetValue(DottedKey(w[i].path)) = w[i].value
                    /\ RetValue(DottedKey(w[i].path)) = LastMet(DottedKey(w[i].path))
            /\ \A j \in 1..Len(ret.items) :
                 \E i \in 1..Len(w) :
                    ret.items[j] = <<DottedKey(w[i].path), w[i].value>>
            /\ call.d = ContentErrors
                 => ret = PyDict(<< <<"content", PyStr("too long bad word")>> >>)
            /\ call.d = PyDict(<< <<"content", PyDict(<< <<"_errors",
                            PyList(<<PyDict(<<>>),
                                     PyDict(<< <<"message", PyStr("too long")>> >>)>>)>> >>)>> >>)
                 => ret = PyDict(<< <<"content", PyStr(" too long")>> >>)

\* the mapping of the example, flattened
C4_Witness ==
    /\ FlattenRan
    /\ call.d = ContentErrors
    /\ ret = PyDict(<< <<"content", PyStr("too long bad word")>> >>)

(***************************************************************************)
(* ConnectionClosed: the close code                                        *)
(***************************************************************************)
ConnectionClosedRan == call.op = "ConnectionClosed"

\* the explicit code if one is given, else the socket's if it reports one,
\* else -1
FirstGivenCode ==
    IF call.code # PyNone THEN call.code
    ELSE IF call.socket.close_code # PyNone THEN call.socket.close_code
    ELSE PyInt(-1)

\* C5: a ConnectionClosed holds as code the explicit code whenever one is
\* given (0 included), else the socket's close code whenever it reports one
\* (0 included), else -1, and its message is
\* "Shard ID {shard_id} WebSocket closed with {code}" with that code.
C5_FirstGivenCode ==
    ConnectionClosedRan =>
        /\ exc.code = FirstGivenCode
        /\ ExcStr(exc) = "Shard ID " \o Str(call.shard_id)
                           \o " WebSocket closed with " \o IntToStr(FirstGivenCode.n)

(***************************************************************************)
(* The Application family: mentions, lists, permission names, kinds        *)
(***************************************************************************)
ApplicationFamily ==
    { "ApplicationError", "ApplicationCheckFailure", "ApplicationCheckAnyFailure",
      "ApplicationNoPrivateMessage", "ApplicationMissingRole",
      "ApplicationMissingAnyRole", "ApplicationBotMissingRole",
      "ApplicationBotMissingAnyRole", "ApplicationMissingPermissions",
      "ApplicationBotMissingPermissions", "ApplicationPrivateMessageOnly",
      "ApplicationNotOwner", "ApplicationNSFWChannelRequired" }

ApplicationRaised == exc # PyNone /\ exc.cls \in ApplicationFamily

\* a message was given to the constructor, or made by it
MessageGiven == call.op = "ApplicationError" => call.message # PyNone

\* the message the exception stores: the first of its args
Stored == exc.args[1].s

\* s with a zero-width space put after every '@' that 'everyone' or 'here'
\* follows
RECURSIVE EscapedRange(_, _, _)
EscapedRange(s, lo, hi) ==
    IF lo > hi THEN ""
    ELSE IF lo = hi
         THEN Char(s, lo) \o
                (IF /\ Char(s, lo) = "@"
                    /\ \/ StartsWithAt(s, lo + 1, "everyone")
                       \/ StartsWithAt(s, lo + 1, "here")
                 THEN ZWSP ELSE "")
    ELSE LET mid == (lo + hi) \div 2
         IN  EscapedRange(s, lo, mid) \o EscapedRange(s, mid + 1, hi)

Escaped(s) == EscapedRange(s, 1, Len(s))

ListOf(items, conj) ==
    CASE Len(items) = 0 -> ""
      [] Len(items) = 1 -> items[1]
      [] Len(items) = 2 -> items[1] \o " " \o conj \o " " \o items[2]
      [] OTHER ->
           Concat([i \in 1..(Len(items) - 1) |-> items[i] \o ", "])
             \o conj \o " " \o items[Len(items)]

\* role identifiers in single quotes, in input order
Quoted(roles) == [i \in 1..Len(roles) |-> "'" \o Str(roles[i]) \o "'"]

\* the permission names as the message shows them, in input order
Shown(perms) == [i \in 1..Len(perms) |-> PermissionName(perms[i])]

\* C7: the list in the messages of missing-any-role, bot-missing-any-role,
\* missing-permissions and bot-missing-permissions is '' for 0 items, the item
\* for 1, "A or B" / "A and B" without comma for 2, and for 3 or more all but
\* the last joined by ", ", then ", or " / ", and " and the last, in input
\* order; role items are in single quotes, so ["a","b","c"] gives
\* "'a', 'b', or 'c'".
C7_ListJoining ==
    /\ call.op = "ApplicationMissingAnyRole" =>
         /\ Stored = Escaped("You are missing at least one of the required roles: "
                               \o ListOf(Quoted(call.missing_roles), "or"))
         /\ call.missing_roles = <<PyStr("a"), PyStr("b"), PyStr("c")>>
              => Contains(Stored, "'a', 'b', or 'c'")
         /\ call.missing_roles = <<PyStr("a"), PyStr("b")>>
              => Stored = "You are missing at least one of the required roles: 'a' or 'b'"
    /\ call.op = "ApplicationBotMissingAnyRole" =>
         Stored = Escaped("Bot is missing at least one of the required roles: "
                            \o ListOf(Quoted(call.missing_roles), "or"))
    /\ call.op = "ApplicationMissingPermissions" =>
         Stored = "You are missing " \o ListOf(Shown(call.missing_permissions), "and")
                    \o " permission(s) to run this command."
    /\ call.op = "ApplicationBotMissingPermissions" =>
         Stored = "Bot requires " \o ListOf(Shown(call.missing_permissions), "and")
                    \o " permission(s) to run this command."

\* three roles
C7_Witness ==
    /\ call.op = "ApplicationMissingAnyRole"
    /\ call.missing_roles = <<PyStr("a"), PyStr("b"), PyStr("c")>>
    /\ Stored = "You are missing at least one of the required roles: 'a', 'b', or 'c'"

\* underscores to spaces, 'guild' to 'server', then title-cased
TransformedName(perm) ==
    CASE perm = "manage_guild"        -> "Manage Server"
      [] perm = "kick_members"        -> "Kick Members"
      [] perm = "view_guild_insights" -> "View Server Insights"
      [] perm = "Manage_guilds"       -> "Manage Servers"

PermissionsRan ==
    call.op \in {"ApplicationMissingPermissions", "ApplicationBotMissingPermissions"}

\* C8: missing-permissions and bot-missing-permissions show every permission
\* name with underscores replaced by spaces, 'guild' by 'server', then
\* title-cased, and keep the list as given in missing_permissions; the
\* messages are "You are missing {list} permission(s) to run this command."
\* and "Bot requires {list} permission(s) to run this command.";
\* ["manage_guild"] shows "Manage Server", never "Manage Guild".
C8_PermissionNames ==
    PermissionsRan =>
        LET names == [i \in 1..Len(call.missing_permissions) |->
                         TransformedName(call.missing_permissions[i])]
            lead  == IF call.op = "ApplicationMissingPermissions"
                     THEN "You are missing " ELSE "Bot requires "
        IN  /\ exc.missing_permissions = call.missing_permissions
            /\ \A i \in 1..Len(names) : Contains(Stored, names[i])
            /\ Len(names) <= 1 =>
                 Stored = lead \o Concat(names) \o " permission(s) to run this command."
            /\ Len(names) = 2 =>
                 Stored = lead \o names[1] \o " and " \o names[2]
                            \o " permission(s) to run this command."
            /\ call.missing_permissions = <<"manage_guild">>
                 => /\ Contains(Stored, "Manage Server")
                    /\ ~Contains(Stored, "Manage Guild")

\* the permission of the example
C8_Witness ==
    /\ call.op = "ApplicationMissingPermissions"
    /\ call.missing_permissions = <<"manage_guild">>
    /\ exc.missing_permissions = <<"manage_guild">>
    /\ Stored = "You are missing Manage Server permission(s) to run this command."

\* isinstance(e, c)
IsInstance(e, c) == IsSubclass(e.cls, c)

\* C9 as stated: every instance of the Application family is an instance of
\* the check-failure kind, the application-error kind and the base error
\* kind, and of neither the HTTP-error nor the client-error kind.
C9_AllCheckFailures ==
    ApplicationRaised =>
        /\ IsInstance(exc, "ApplicationCheckFailure")
        /\ IsInstance(exc, "ApplicationError")
        /\ IsInstance(exc, "DiscordException")
        /\ ~IsInstance(exc, "HTTPException")
        /\ ~IsInstance(exc, "ClientException")

\* C9 amended: every instance of the Application family is an instance of
\* the application-error kind and the base error kind, and of neither the
\* HTTP-error nor the client-error kind; it is an instance of the
\* check-failure kind unless its class is the ApplicationError root itself.
C9_CheckFailuresBelowRoot ==
    ApplicationRaised =>
        /\ IsInstance(exc, "ApplicationCheckFailure") <=> exc.cls # "ApplicationError"
        /\ IsInstance(exc, "ApplicationError")
        /\ IsInstance(exc, "DiscordException")
        /\ ~IsInstance(exc, "HTTPException")
        /\ ~IsInstance(exc, "ClientException")

\* a not-owner error, caught as a check failure
C9_Witness ==
    /\ ApplicationRaised
    /\ exc.cls = "ApplicationNotOwner"
    /\ IsInstance(exc, "ApplicationCheckFailure")

\* C10: no-private-message and private-message-only store their default
\* message exactly when no message is given, and otherwise the message given
\* (mentions escaped), the empty string included.
C10_DefaultOnlyWhenAbsent ==
    /\ call.op = "ApplicationNoPrivateMessage" =>
         Stored = IF call.message = PyNone
                  THEN "This command cannot be used in private messages."
                  ELSE Escaped(call.message.s)
    /\ call.op = "ApplicationPrivateMessageOnly" =>
         Stored = IF call.message = PyNone
                  THEN "This command can only be used in private messages."
                  ELSE Escaped(call.message.s)

====
